---- MODULE Spec2Model ----
(***************************************************************************)
(* httpim: an HTTP image-gallery server (src/httpim.py).                   *)
(*                                                                         *)
(* Strings are sequences of one-character strings, so that the path        *)
(* functions of the program (url_path_strip, check_url_path_safety,        *)
(* unquote, os.path.join, os.path.splitext, ...) are computed character by *)
(* character as the code computes them.                                    *)
(***************************************************************************)
EXTENDS Integers, Sequences, FiniteSets, TLC

VARIABLES
    files,   \* the filesystem: canonical absolute path -> [kind, data, mtime]
    clock,   \* wall clock, in ticks of 1/TicksPerSec second
    req,     \* the GET request being handled (or last handled)
    resp     \* its response; NoResp while the request is still pending

vars == <<files, clock, req, resp>>

(***************************************************************************)
(* Characters and string helpers                                           *)
(***************************************************************************)
TAB == "\t"
BADCHAR == "<U+FFFD>"          \* what unquote yields for an undecodable byte

\* p occurs in s at offset k
OccursAt(s, p, k) == \A j \in 1..Len(p) : s[k + j] = p[j]
StartsWith(s, p) == Len(p) <= Len(s) /\ OccursAt(s, p, 0)
EndsWith(s, p) == Len(p) <= Len(s) /\ OccursAt(s, p, Len(s) - Len(p))
Contains(s, p) == \E k \in 0..(Len(s) - Len(p)) : OccursAt(s, p, k)
Drop(s, n) == SubSeq(s, n + 1, Len(s))
Take(s, n) == SubSeq(s, 1, n)

\* str.rfind(c) + 1: the 1-based index of the last occurrence of c, 0 if none
RFind(s, c) ==
    IF \E i \in 1..Len(s) : s[i] = c
    THEN CHOOSE i \in 1..Len(s) : s[i] = c /\ \A j \in (i + 1)..Len(s) : s[j] # c
    ELSE 0

\* str.find(c): the 1-based index of the first occurrence of a character of cs
FindAny(s, cs) ==
    IF \E i \in 1..Len(s) : s[i] \in cs
    THEN CHOOSE i \in 1..Len(s) : s[i] \in cs /\ \A j \in 1..(i - 1) : s[j] \notin cs
    ELSE 0

RECURSIVE Flatten(_)
Flatten(ss) == IF ss = <<>> THEN <<>> ELSE Head(ss) \o Flatten(Tail(ss))

LowerChar(c) ==
    CASE c = "P" -> "p" [] c = "N" -> "n" [] c = "G" -> "g"
      [] c = "A" -> "a" [] c = "B" -> "b" [] c = "E" -> "e" [] c = "F" -> "f"
      [] OTHER -> c
Lower(s) == [i \in 1..Len(s) |-> LowerChar(s[i])]

(***************************************************************************)
(* Request-path decoding and validation                                    *)
(***************************************************************************)
Whitespace == {" ", TAB}

RECURSIVE LStrip(_)
LStrip(s) == IF s # <<>> /\ Head(s) \in Whitespace THEN LStrip(Tail(s)) ELSE s
RECURSIVE RStrip(_)
RStrip(s) == IF s # <<>> /\ s[Len(s)] \in Whitespace THEN RStrip(Take(s, Len(s) - 1)) ELSE s
\* str.strip()
Strip(s) == RStrip(LStrip(s))

\* urlparse(url).path for URLs without scheme and params: leading whitespace
\* is stripped and tabs are removed; a leading '//' starts a network location
\* that ends at the next '/', '?' or '#'; the path ends at the first '?' or
\* '#'.
RECURSIVE RemoveTabs(_)
RemoveTabs(s) ==
    IF s = <<>> THEN <<>>
    ELSE IF Head(s) = TAB THEN RemoveTabs(Tail(s))
    ELSE <<Head(s)>> \o RemoveTabs(Tail(s))
CutAt(s, i) == IF i = 0 THEN s ELSE Take(s, i - 1)
CutBefore(s, i) == IF i = 0 THEN <<>> ELSE Drop(s, i - 1)
BeforeQuery(s) == CutAt(s, FindAny(s, {"?", "#"}))
AfterNetloc(rest) == CutBefore(rest, FindAny(rest, {"/", "?", "#"}))
SplitUrl(url) ==
    BeforeQuery(IF StartsWith(url, <<"/", "/">>) THEN AfterNetloc(Drop(url, 2)) ELSE url)
urlparse_path(url) == SplitUrl(RemoveTabs(LStrip(url)))

HexDigits == {"0", "1", "2", "3", "4", "5", "6", "7", "8", "9",
              "A", "B", "C", "D", "E", "F", "a", "b", "c", "d", "e", "f"}

\* the character a %XY escape stands for
HexPair(h) ==
    CASE h = <<"2", "e">> -> "."
      [] h = <<"2", "f">> -> "/"
      [] h = <<"2", "0">> -> " "
      [] h = <<"0", "9">> -> TAB
      [] h = <<"7", "e">> -> "~"
      [] h = <<"2", "5">> -> "%"
      [] h = <<"3", "f">> -> "?"
      [] h = <<"6", "1">> -> "a"
      [] OTHER -> BADCHAR
HexChar(x, y) == HexPair(<<x, LowerChar(y)>>)

\* urllib.parse.unquote
RECURSIVE unquote(_)
unquote(s) ==
    IF s = <<>> THEN <<>>
    ELSE IF s[1] = "%" /\ Len(s) >= 3 /\ s[2] \in HexDigits /\ s[3] \in HexDigits
         THEN <<HexChar(s[2], s[3])>> \o unquote(Drop(s, 3))
         ELSE <<s[1]>> \o unquote(Tail(s))

\* the while loops of url_path_strip
RECURSIVE LeadCut(_, _)
LeadCut(url_path, cut) ==
    IF (Len(url_path) - cut) # 0 /\ (url_path[cut + 1] = " " \/ url_path[cut + 1] = "/")
    THEN LeadCut(url_path, cut + 1)
    ELSE cut
RECURSIVE TrailCut(_, _)
TrailCut(url_path, cut) ==
    IF (Len(url_path) - cut) # 0
       /\ (url_path[Len(url_path) - cut] = " " \/ url_path[Len(url_path) - cut] = "/")
    THEN TrailCut(url_path, cut + 1)
    ELSE cut

\* url_path_strip removing one trailing character at most
CutTrail_once(url_path) ==
    IF url_path # <<>> /\ url_path[Len(url_path)] \in {" ", "/"}
    THEN Take(url_path, Len(url_path) - 1)
    ELSE url_path

\* line 278
CutTrail(url_path) == Take(url_path, Len(url_path) - TrailCut(url_path, 0))
url_path_strip(url_path) == CutTrail(Drop(url_path, LeadCut(url_path, 0)))

\* check_url_path_safety without its endswith test
check_url_path_safety_no_suffix(url_path) ==
    IF \/ StartsWith(url_path, <<"~", "/">>)
       \/ StartsWith(url_path, <<".", "/">>)
       \/ StartsWith(url_path, <<".", ".", "/">>)
       \/ StartsWith(url_path, <<"/", "/">>)
       \/ StartsWith(url_path, <<" ">>)
    THEN FALSE
    ELSE IF \/ Contains(url_path, <<"/", ".", "/">>)
            \/ Contains(url_path, <<"/", ".", ".", "/">>)
            \/ Contains(url_path, <<"/", "~", "/">>)
    THEN FALSE
    ELSE TRUE

check_url_path_safety(url_path) ==
    IF \/ StartsWith(url_path, <<"~", "/">>)
       \/ StartsWith(url_path, <<".", "/">>)
       \/ StartsWith(url_path, <<".", ".", "/">>)
       \/ StartsWith(url_path, <<"/", "/">>)
       \/ StartsWith(url_path, <<" ">>)
    THEN FALSE
    ELSE IF \/ EndsWith(url_path, <<"/", "~">>)
            \/ EndsWith(url_path, <<"/", ".">>)
            \/ EndsWith(url_path, <<"/", ".", ".">>)
            \/ EndsWith(url_path, <<" ">>)
    THEN FALSE
    ELSE IF \/ Contains(url_path, <<"/", ".", "/">>)
            \/ Contains(url_path, <<"/", ".", ".", "/">>)
            \/ Contains(url_path, <<"/", "~", "/">>)
    THEN FALSE
    ELSE TRUE

\* do_GET, lines 351-353: the Request Path derived from the raw request target
RequestPath(raw) == <<"/">> \o url_path_strip(unquote(Strip(urlparse_path(raw))))

\* lines 351-357 as a function: the accepted Request Path, or Rejected
Rejected == <<"rejected">>
checked(path) == IF check_url_path_safety(path) THEN path ELSE Rejected
validate(raw) == checked(RequestPath(raw))

(***************************************************************************)
(* os.path and the filesystem                                              *)
(***************************************************************************)
\* posixpath.join: an absolute second component replaces the first
join(a, b) ==
    IF StartsWith(b, <<"/">>) THEN b
    ELSE IF a = <<>> \/ EndsWith(a, <<"/">>) THEN a \o b
    ELSE a \o <<"/">> \o b

\* genericpath._splitext: <<root, ext>>; leading dots of the file name are
\* not an extension
splitext_at(p, sepIndex, dotIndex) ==
    IF dotIndex > sepIndex /\ \E k \in (sepIndex + 1)..(dotIndex - 1) : p[k] # "."
    THEN <<Take(p, dotIndex - 1), Drop(p, dotIndex - 1)>>
    ELSE <<p, <<>> >>
splitext(p) == splitext_at(p, RFind(p, "/"), RFind(p, "."))

RECURSIVE RStripSlash(_)
RStripSlash(s) ==
    IF s # <<>> /\ s[Len(s)] = "/" THEN RStripSlash(Take(s, Len(s) - 1)) ELSE s

\* posixpath.dirname
dirname_head(head) ==
    IF head # <<>> /\ \E k \in 1..Len(head) : head[k] # "/"
    THEN RStripSlash(head)
    ELSE head
dirname(p) == dirname_head(Take(p, RFind(p, "/")))

\* the '/'-separated components of a path, empty ones included
RECURSIVE Split(_)
RECURSIVE SplitAt(_, _)
SplitAt(s, i) == IF i = 0 THEN <<s>> ELSE <<Take(s, i - 1)>> \o Split(Drop(s, i))
Split(s) == SplitAt(s, FindAny(s, {"/"}))

\* path resolution as the kernel does it for an absolute path without
\* symbolic links: empty and '.' components are skipped, '..' goes up
RECURSIVE Walk(_, _)
Walk(segs, acc) ==
    IF segs = <<>> THEN acc
    ELSE IF Head(segs) = <<>> \/ Head(segs) = <<".">> THEN Walk(Tail(segs), acc)
    ELSE IF Head(segs) = <<".", ".">>
         THEN Walk(Tail(segs), IF acc = <<>> THEN acc ELSE Take(acc, Len(acc) - 1))
    ELSE Walk(Tail(segs), Append(acc, Head(segs)))

RECURSIVE Unsplit(_)
Unsplit(segs) ==
    IF segs = <<>> THEN <<>> ELSE <<"/">> \o Head(segs) \o Unsplit(Tail(segs))

\* the canonical absolute path a path names
CanonOf(segs) == IF segs = <<>> THEN <<"/">> ELSE Unsplit(segs)
Canon(p) == CanonOf(Walk(Split(p), <<>>))

NoPath == <<>>
NoData == [type |-> "none", from |-> NoPath]
DirEntry == [kind |-> "dir", data |-> [type |-> "dir", from |-> NoPath], mtime |-> 0]
FileEntry(type, from, mtime) ==
    [kind |-> "file", data |-> [type |-> type, from |-> from], mtime |-> mtime]

\* os.path.exists / os.path.isdir / os.path.isfile
IsDirAt(fs, c) == c \in DOMAIN fs /\ fs[c].kind = "dir"
isdir(fs, p) == IsDirAt(fs, Canon(p))
ExistsAt(fs, p, c) == c \in DOMAIN fs /\ (EndsWith(p, <<"/">>) => fs[c].kind = "dir")
exists(fs, p) == ExistsAt(fs, p, Canon(p))
IsFileAt(fs, p, c) == ExistsAt(fs, p, c) /\ fs[c].kind = "file"
isfile(fs, p) == IsFileAt(fs, p, Canon(p))

\* the proper ancestors of a canonical path, and the path itself
Prefixes(segs) == {Unsplit(Take(segs, k)) : k \in 1..Len(segs)}
Ancestors(c) == Prefixes(Walk(Split(c), <<>>))

\* os.makedirs(p, exist_ok=True): fails when a component exists as a file
makedirs_ok(fs, p) ==
    \A d \in Ancestors(p) : d \in DOMAIN fs => fs[d].kind = "dir"
makedirs(fs, p) ==
    [c \in DOMAIN fs \cup Ancestors(p) |-> IF c \in DOMAIN fs THEN fs[c] ELSE DirEntry]

\* file_can_thumb
ImageExts == {<<".", "p", "n", "g">>, <<".", "j", "p", "g">>, <<".", "j", "p", "e", "g">>,
              <<".", "t", "i", "f", "f">>, <<".", "b", "m", "p">>, <<".", "g", "i", "f">>}
file_can_thumb(path) == \E e \in ImageExts : EndsWith(Lower(path), e)

(***************************************************************************)
(* Program configuration (the args global)                                 *)
(***************************************************************************)
CacheName == <<"_", "_", "h", "t", "t", "p", "i", "m", "_", "c", "a", "c", "h", "e", "_", "_">>
CachePrefix == <<"/">> \o CacheName \o <<"/">>
args_path == <<"/", "r">>
args_cachepath == join(args_path, CacheName)
Jpg == <<".", "j", "p", "g">>

(***************************************************************************)
(* Bounds of the model                                                     *)
(***************************************************************************)
TicksPerSec == 2     \* clock resolution: modification times have a sub-second part
MaxClock == 1        \* the clock of Spec runs from 0 to MaxClock ticks
MaxSec == 1          \* If-Modified-Since values are 0..MaxSec seconds
MaxMtime == 3        \* modification times of SpecFile are 0..MaxMtime ticks
MaxLen == 4          \* raw request targets of SpecPath have at most MaxLen units

(***************************************************************************)
(* Requests and responses                                                  *)
(***************************************************************************)
\* If-Modified-Since: absent, or a date of whole seconds that parses to an
\* aware UTC datetime ("utc"), a naive one ("naive", zone -0000) or an aware
\* one of another zone ("other")
NoIMS == [tz |-> "absent", sec |-> 0]
Request(raw, ims, inm) == [path |-> raw, ims |-> ims, inm |-> inm]
\* no request is being handled
NoRequest == Request(<<>>, NoIMS, FALSE)

NoResp ==
    [done |-> FALSE, status |-> 0, ops |-> <<>>, served |-> NoPath, body |-> NoData,
     lastmod |-> 0, path |-> NoPath, realpath |-> NoPath, cachepath |-> NoPath,
     hit |-> FALSE, save |-> "none"]

\* what do_GET leaves behind: the response, the filesystem operations it
\* performed in order (ops), the paths it derived, whether the cache entry
\* existed (hit) and how img.save ended if it ran (save)
Response(r, path, realpath, cachepath, hit, ops) ==
    [done |-> TRUE, status |-> r.status, ops |-> ops \o r.ops, served |-> r.served,
     body |-> r.body, lastmod |-> r.lastmod, path |-> path, realpath |-> realpath,
     cachepath |-> cachepath, hit |-> hit, save |-> "none"]

\* _do_404
do_404 == [status |-> 404, ops |-> <<>>, served |-> NoPath, body |-> NoData, lastmod |-> 0]

\* do_GET falling off its end (line 402 not taken): nothing is sent
no_response == [status |-> 0, ops |-> <<>>, served |-> NoPath, body |-> NoData, lastmod |-> 0]

\* _do_file, lines 304-321: the If-Modified-Since test.  Line 309 raises
\* AttributeError for a naive datetime (swallowed by line 320); line 313
\* discards the result of replace(microsecond=0), so last_modified keeps its
\* sub-second part.
not_modified(mtime, rq) ==
    IF rq.ims.tz # "absent" /\ ~rq.inm
    THEN IF rq.ims.tz = "naive" THEN FALSE
         ELSE IF rq.ims.tz = "utc"
              THEN LET last_modified == mtime
                       ts == rq.ims.sec * TicksPerSec
                   IN last_modified <= ts
              ELSE FALSE
    ELSE FALSE

\* email.utils.formatdate(stat.st_mtime or time.time()): whole seconds
last_modified_header(mtime, now) == (IF mtime # 0 THEN mtime ELSE now) \div TicksPerSec

\* _do_file, lines 302-331, for a file that could be opened
send_file(st, now, rq, path) ==
    IF not_modified(st.mtime, rq)
    THEN [status |-> 304, ops |-> << <<"open", path>> >>, served |-> path,
          body |-> NoData, lastmod |-> 0]
    ELSE [status |-> 200, ops |-> << <<"open", path>> >>, served |-> path,
          body |-> st.data, lastmod |-> last_modified_header(st.mtime, now)]

\* _do_file: open() fails for a missing path and for a directory
do_file_at(fs, now, rq, path, c) ==
    IF ~IsFileAt(fs, path, c)
    THEN [do_404 EXCEPT !.ops = << <<"open", path>> >>]
    ELSE send_file(fs[c], now, rq, path)
do_file(fs, now, rq, path) == do_file_at(fs, now, rq, path, Canon(path))

\* _do_dir with iter_dir_page_bytes: the listing page of a directory
do_dir(fs, realpath) ==
    [status |-> 200, ops |-> << <<"listdir", realpath>> >>, served |-> realpath,
     body |-> [type |-> "listing", from |-> Canon(realpath)], lastmod |-> 0]

\* PIL can decode source images and complete thumbnails
Decodable == {"image", "thumb"}
\* how img.save ends: the JPEG is written; it raises before creating the
\* file; it raises after creating the file, leaving it partly written
SaveOutcomes == {"ok", "fail_clean", "fail_partial"}

Outcome(fs, r) == [files |-> fs, resp |-> r]

\* the filesystem once img.save has created the file at canonical path c
written(fs, c, type, from, now) ==
    [d \in DOMAIN fs \cup {c} |-> IF d = c THEN FileEntry(type, from, now) ELSE fs[d]]

\* line 396 after a successful save
send_thumbnail(fs, now, rq, path, realpath, cachepath, ops) ==
    Outcome(fs, [Response(do_file(fs, now, rq, cachepath), path, realpath, cachepath, FALSE,
                          ops) EXCEPT !.save = "ok"])

\* line 389: img.save(cachepath, 'JPEG', quality=95)
save_thumbnail(fs, now, rq, path, realpath, cachepath, save, ops) ==
    CASE save = "ok" ->
           send_thumbnail(written(fs, Canon(cachepath), "thumb", Canon(realpath), now),
                          now, rq, path, realpath, cachepath, ops)
      [] save = "fail_partial" ->
           Outcome(written(fs, Canon(cachepath), "partial", Canon(realpath), now),
                   [Response(do_404, path, realpath, cachepath, FALSE, ops)
                       EXCEPT !.save = save])
      [] OTHER ->
           Outcome(fs, [Response(do_404, path, realpath, cachepath, FALSE, ops)
                           EXCEPT !.save = save])

\* lines 387-388: Image.open(realpath) and img.thumbnail
open_image(fs, now, rq, path, realpath, cachepath, save, ops, src) ==
    IF ~(IsFileAt(fs, realpath, src) /\ fs[src].data.type \in Decodable)
    THEN Outcome(fs, Response(do_404, path, realpath, cachepath, FALSE, ops))
    ELSE save_thumbnail(fs, now, rq, path, realpath, cachepath, save,
                        Append(ops, <<"save", cachepath>>))

\* do_GET, lines 384-396: build the thumbnail, then send it
make_cache_dir(fs, now, rq, path, realpath, cachepath, save, ops, dir) ==
    IF ~makedirs_ok(fs, dir)
    THEN Outcome(fs, Response(do_404, path, realpath, cachepath, FALSE, ops))
    ELSE open_image(makedirs(fs, dir), now, rq, path, realpath, cachepath, save,
                    Append(ops, <<"Image.open", realpath>>), Canon(realpath))

build_thumbnail(fs, now, rq, path, realpath, cachepath, save) ==
    make_cache_dir(fs, now, rq, path, realpath, cachepath, save,
                   << <<"isdir", realpath>>, <<"exists", cachepath>>,
                      <<"makedirs", dirname(cachepath)>> >>,
                   Canon(dirname(cachepath)))

\* the cache request without the test for an existing cache entry
cached_always_build(fs, now, rq, path, realpath, cachepath, save) ==
    IF ~file_can_thumb(realpath)
    THEN Outcome(fs, Response(do_404, path, realpath, cachepath, FALSE,
                              << <<"isdir", realpath>>, <<"exists", cachepath>> >>))
    ELSE build_thumbnail(fs, now, rq, path, realpath, cachepath, save)

\* do_GET, lines 372-396: a cache request whose source is not a directory
cached(fs, now, rq, path, realpath, cachepath, save) ==
    IF exists(fs, cachepath)
    THEN Outcome(fs, Response(do_file(fs, now, rq, cachepath), path, realpath, cachepath, TRUE,
                              << <<"isdir", realpath>>, <<"exists", cachepath>> >>))
    ELSE IF ~file_can_thumb(realpath)
    THEN Outcome(fs, Response(do_404, path, realpath, cachepath, FALSE,
                              << <<"isdir", realpath>>, <<"exists", cachepath>> >>))
    ELSE build_thumbnail(fs, now, rq, path, realpath, cachepath, save)

\* do_GET, lines 398-402: a direct request whose target is not a directory
direct(fs, now, rq, path, realpath) ==
    IF exists(fs, realpath)
    THEN Outcome(fs, Response(do_file(fs, now, rq, realpath), path, realpath, NoPath, FALSE,
                              << <<"isdir", realpath>>, <<"exists", realpath>> >>))
    ELSE Outcome(fs, Response(no_response, path, realpath, NoPath, FALSE,
                              << <<"isdir", realpath>>, <<"exists", realpath>> >>))

\* do_GET, lines 367-402
dispatch(fs, now, rq, path, realpath, cachepath0, save) ==
    IF isdir(fs, realpath)
    THEN Outcome(fs, Response(do_dir(fs, realpath), path, realpath, cachepath0, FALSE,
                              << <<"isdir", realpath>> >>))
    ELSE IF cachepath0 # NoPath
    THEN cached(fs, now, rq, path, realpath, splitext(cachepath0)[1] \o Jpg, save)
    ELSE direct(fs, now, rq, path, realpath)

\* do_GET, lines 359-365: the cache target and the source target
targets(fs, now, rq, path, save) ==
    IF StartsWith(path, CachePrefix)
    THEN dispatch(fs, now, rq, path,
                  join(args_path, Drop(path, Len(CachePrefix))),
                  join(args_cachepath, Drop(path, Len(CachePrefix))), save)
    ELSE dispatch(fs, now, rq, path, join(args_path, Drop(path, 1)), NoPath, save)

\* do_GET, lines 355-357
guarded(fs, now, rq, path, save) ==
    IF ~check_url_path_safety(path)
    THEN Outcome(fs, Response(do_404, Rejected, NoPath, NoPath, FALSE, <<>>))
    ELSE targets(fs, now, rq, path, save)

\* do_GET as a function of the filesystem, the clock, the request and the
\* way img.save ends: the filesystem and the response afterwards
handle_GET(fs, now, rq, save) == guarded(fs, now, rq, RequestPath(rq.path), save)

(***************************************************************************)
(* The state machine                                                       *)
(***************************************************************************)
Root == <<"/">>
OutsideDir == <<"/", "o">>
OutsideFile == <<"/", "o", "/", "s", ".", "p", "n", "g">>
SubDir == args_path \o <<"/", "a">>
SubFile == args_path \o <<"/", "a", "/", "a">>
APng == args_path \o <<"/", "a", ".", "p", "n", "g">>
AGif == args_path \o <<"/", "a", ".", "g", "i", "f">>
ATxt == args_path \o <<"/", "a", ".", "t", "x", "t">>

\* the filesystem when serve_forever starts: the Served Root with two images
\* that differ only in their extension, a text file and a subdirectory; the
\* Cache Root, created empty by line 465; and a directory outside the
\* Served Root, holding an image
InitFiles ==
    [c \in {Root, args_path, args_cachepath, SubDir, SubFile, APng, AGif, ATxt,
            OutsideDir, OutsideFile} |->
        CASE c \in {Root, args_path, args_cachepath, SubDir, OutsideDir} -> DirEntry
          [] c \in {APng, AGif, OutsideFile} -> FileEntry("image", c, 0)
          [] OTHER -> FileEntry("text", c, 0)]

\* the source images, which the environment may rewrite or delete while
\* the server runs
Sources == {APng, AGif}

IMSValues == {NoIMS} \cup {[tz |-> "utc", sec |-> t] : t \in 0..MaxSec}
IMSKinds == IMSValues \cup {[tz |-> z, sec |-> t] : z \in {"naive", "other"}, t \in 0..MaxSec}

\* raw request targets of Spec
Targets ==
    { <<"/">>,
      <<"/", "a", ".", "p", "n", "g">>,
      <<"/", "a", ".", "t", "x", "t">>,
      <<"/", "x">>,
      CachePrefix \o <<"a", ".", "p", "n", "g">>,
      CachePrefix \o <<"a", ".", "g", "i", "f">>,
      CachePrefix \o <<"a", ".", "t", "x", "t">>,
      CachePrefix \o <<"x", ".", "p", "n", "g">>,
      CachePrefix \o <<"/", "o">>,
      CachePrefix \o <<"/", "o", "/", "s", ".", "p", "n", "g">>,
      CachePrefix \o <<"%", "2", "E", "%", "2", "E", "/", "o">> }

Requests == {Request(t, h, FALSE) : t \in Targets, h \in IMSValues}

\* raw request targets of SpecPath: up to MaxLen units, each a literal
\* character, a percent-escape or the doubly escaped dot %252E
Units == { <<"/">>, <<".">>, <<"~">>, <<"a">>, <<"?">>,
           <<"%", "2", "E">>, <<"%", "2", "F">>, <<"%", "2", "0">>, <<"%", "0", "9">>,
           <<"%", "2", "5", "2", "E">> }

\* one run of do_GET; the way img.save ends is a choice only when do_GET
\* gets as far as img.save
Reply(rq, out) ==
    /\ files' = out.files
    /\ resp' = out.resp
    /\ req' = rq
    /\ UNCHANGED clock
Saves(ops) == IF \E i \in 1..Len(ops) : ops[i][1] = "save" THEN SaveOutcomes ELSE {"ok"}
ServeFrom(rq, ok) ==
    \E save \in Saves(ok.resp.ops) :
        Reply(rq, IF save = "ok" THEN ok ELSE handle_GET(files, clock, rq, save))
Serve(rq) == ServeFrom(rq, handle_GET(files, clock, rq, "ok"))

\* HTTPIM.do_GET for the next request that serve_forever accepts
do_GET == ~resp.done /\ \E rq \in Requests : Serve(rq)

\* the handler returns and serve_forever waits for the next request
finish ==
    /\ resp.done
    /\ req' = NoRequest
    /\ resp' = NoResp
    /\ UNCHANGED <<files, clock>>

\* HTTPIM.do_GET for the one request drawn by the initial state
do_GET_once == ~resp.done /\ Serve(req)

\* time passes between two requests
Tick ==
    /\ ~resp.done
    /\ clock < MaxClock
    /\ clock' = clock + 1
    /\ UNCHANGED <<files, req, resp>>

\* the environment rewrites a source image between two requests
ModifySource ==
    \E p \in Sources :
        /\ ~resp.done
        /\ p \in DOMAIN files
        /\ files[p].mtime < clock
        /\ files' = [files EXCEPT ![p].mtime = clock]
        /\ UNCHANGED <<clock, req, resp>>

\* the environment deletes a source image between two requests
DeleteSource ==
    \E p \in Sources :
        /\ ~resp.done
        /\ p \in DOMAIN files
        /\ files' = [c \in DOMAIN files \ {p} |-> files[c]]
        /\ UNCHANGED <<clock, req, resp>>

Init ==
    /\ files = InitFiles
    /\ clock = 0
    /\ req = NoRequest
    /\ resp = NoResp

Next == do_GET \/ finish \/ Tick \/ ModifySource \/ DeleteSource

Spec == Init /\ [][Next]_vars

\* SpecPath: one request with an arbitrary raw target against the initial
\* filesystem
InitPath ==
    /\ files = InitFiles
    /\ clock = 0
    /\ \E k \in 0..MaxLen :
           \E u \in [1..k -> Units] : req = Request(Flatten(u), NoIMS, FALSE)
    /\ resp = NoResp

NextPath == do_GET_once

SpecPath == InitPath /\ [][NextPath]_vars

\* SpecFile: one request for a file of any modification time, with any
\* combination of the conditional headers
InitFile ==
    /\ \E m \in 0..MaxMtime :
           files = [InitFiles EXCEPT ![ATxt].mtime = m, ![APng].mtime = m]
    /\ clock = MaxMtime
    /\ req \in {Request(t, h, n) : t \in {<<"/", "a", ".", "t", "x", "t">>,
                                          <<"/", "a", ".", "p", "n", "g">>},
                                   h \in IMSKinds, n \in BOOLEAN}
    /\ resp = NoResp

NextFile == do_GET_once

SpecFile == InitFile /\ [][NextFile]_vars

(***************************************************************************)
(* Properties of the Request Path (SpecPath)                               *)
(***************************************************************************)
DotSegments == {<<".", ".">>, <<".">>, <<"~">>}
AnyDotSegment(segs) == \E i \in 1..Len(segs) : segs[i] \in DotSegments
\* a path that contains '/../', '/./' or '/~/', or starts or ends with a
\* '..', '.' or '~' segment
HasDotSegment(p) == AnyDotSegment(Split(p))

Accepted == resp.done /\ resp.path # Rejected

\* C1: a GET whose decoded, normalised path contains '/../', '/./' or '/~/',
\* or starts or ends with a '..', '.' or '~' segment, is answered 404 and
\* do_GET performs no filesystem operation at all.
C1_UnsafePathRejectedUntouched ==
    (resp.done /\ HasDotSegment(RequestPath(req.path)))
        => (resp.status = 404 /\ resp.ops = <<>> /\ files = InitFiles)

\* a percent-encoded '..' segment in front of a name was rejected
C1_Witness ==
    /\ resp.done
    /\ StartsWith(req.path, <<"%", "2", "E", "%", "2", "E", "/">>)
    /\ HasDotSegment(RequestPath(req.path))
    /\ resp.status = 404

\* C7 as claimed: validating an accepted Request Path again yields the same
\* path.
C7_ValidateIdempotent == Accepted => validate(resp.path) = resp.path

\* C7 as amended: normalising and checking an accepted Request Path again,
\* without decoding it a second time, yields the same path.
C7_NormaliseIdempotent ==
    Accepted => checked(<<"/">> \o url_path_strip(resp.path)) = resp.path

\* an accepted path that a second validation would change, because it still
\* holds a percent-escape, and that a second normalisation leaves as it is
C7_Witness ==
    /\ Accepted
    /\ Contains(resp.path, <<"%", "2", "E">>)
    /\ validate(resp.path) # resp.path
    /\ checked(<<"/">> \o url_path_strip(resp.path)) = resp.path

WellFormed(p, blanks) ==
    /\ p[1] = "/"
    /\ Len(p) > 1 => p[2] # "/"
    /\ p # <<"/">> => p[Len(p)] # "/"
    /\ ~HasDotSegment(p)
    /\ p[1] \notin blanks /\ p[Len(p)] \notin blanks

\* C8: an accepted Request Path starts with exactly one '/', has no trailing
\* '/' unless it is '/', has no '..', '.' or '~' segment, contains no '//'
\* anywhere and has no leading or trailing whitespace.
C8_RequestPathInvariant ==
    Accepted => (WellFormed(resp.path, Whitespace) /\ ~Contains(resp.path, <<"/", "/">>))

(***************************************************************************)
(* Conditional GET (SpecFile)                                              *)
(***************************************************************************)
\* C6: for an openable file with modification time M and a request with
\* If-Modified-Since = T (UTC, whole seconds) and no If-None-Match, _do_file
\* answers 304 without a body exactly when M truncated to whole seconds is
\* <= T, and 200 with the body otherwise.
C6_NotModifiedAtSecondGranularity ==
    (resp.done /\ req.ims.tz = "utc" /\ ~req.inm /\ isfile(files, resp.realpath))
        => IF files[Canon(resp.realpath)].mtime \div TicksPerSec <= req.ims.sec
           THEN resp.status = 304 /\ resp.body = NoData
           ELSE resp.status = 200 /\ resp.body = files[Canon(resp.realpath)].data

(***************************************************************************)
(* Routing and the thumbnail cache (Spec)                                  *)
(***************************************************************************)
\* a path that names the Served Root or something below it
Inside(p) == Canon(p) = args_path \/ StartsWith(Canon(p), args_path \o <<"/">>)
CacheRequest == resp.done /\ resp.path # Rejected /\ StartsWith(resp.path, CachePrefix)
Attempted(ops) == \E i \in 1..Len(ops) : ops[i][1] = "makedirs"

\* C2: for an accepted request the source target and the cache target lie
\* inside the Served Root, and so does every path do_GET lists, opens,
\* creates or writes.
C2_TargetsInsideServedRoot ==
    Accepted =>
        /\ Inside(resp.realpath)
        /\ resp.cachepath # NoPath => Inside(resp.cachepath)
        /\ \A i \in 1..Len(resp.ops) : Inside(resp.ops[i][2])

\* C3: an accepted request that names neither a directory nor a file is
\* answered 404, and every request is answered with 200, 304 or 404.
C3_AlwaysAnswered ==
    resp.done =>
        /\ resp.status \in {200, 304, 404}
        /\ (resp.path # Rejected /\ ~exists(files, resp.realpath)) => resp.status = 404

\* C4: a cache-prefixed request whose source is an existing regular file
\* with a non-image extension is answered 404 and writes nothing.
C4_NonImageNotFound ==
    (CacheRequest /\ isfile(files, resp.realpath) /\ ~file_can_thumb(resp.realpath))
        => (resp.status = 404 /\ ~Attempted(resp.ops))

\* C9: when thumbnail generation fails the request is answered 404 and no
\* file is left at the cache path; no request is answered 200 from a partly
\* written cache entry.
C9_FailedGenerationLeavesNothing ==
    /\ (CacheRequest /\ Attempted(resp.ops) /\ resp.save # "ok")
           => (resp.status = 404 /\ ~exists(files, resp.cachepath))
    /\ (resp.done /\ resp.status = 200) => resp.body.type # "partial"

\* C10: a 200 response to a cache-prefixed request for a cacheable source
\* image P carries a thumbnail generated from P.
C10_ThumbnailOfRequestedSource ==
    (CacheRequest /\ file_can_thumb(resp.realpath) /\ resp.status = 200
                  /\ resp.body.type = "thumb")
        => resp.body.from = Canon(resp.realpath)

\* a step of do_GET
GetStep == ~resp.done /\ resp'.done

IsThumb(fs, c) == fs[c].kind = "file" /\ fs[c].data.type = "thumb"
\* the cache path that mirrors a source path of the Served Root
Mirror(src) == args_cachepath \o Drop(splitext(src)[1], Len(args_path)) \o Jpg
StatusOk(r, rq, statuses) ==
    r.status \in statuses /\ (r.status = 304 => rq.ims.tz # "absent")

\* the request r answers found the cache entry c: it is sent as it is and
\* nothing is decoded or written
ServedFromCache(r, rq, c, statuses) ==
    /\ StatusOk(r, rq, statuses)
    /\ r.served = r.cachepath
    /\ r.status = 200 => r.body = files[c].data
    /\ \A i \in 1..Len(r.ops) : r.ops[i][1] \notin {"makedirs", "Image.open", "save"}
    /\ files' = files

\* the request r answers created the cache entry c from the source src
CreatedInCache(r, rq, c, src, statuses) ==
    /\ r.save = "ok"
    /\ Inside(src) => c = Mirror(src)
    /\ {d \in DOMAIN files' \ DOMAIN files : files'[d].kind = "file"} = {c}
    /\ \A d \in DOMAIN files : files'[d] = files[d]
    /\ files'[c].data = [type |-> "thumb", from |-> src]
    /\ StatusOk(r, rq, statuses)
    /\ r.served = r.cachepath
    /\ r.status = 200 => r.body = files'[c].data

CacheStep(r, rq, c, src, statuses) ==
    /\ (r.hit /\ c \in DOMAIN files /\ files[c].kind = "file")
           => ServedFromCache(r, rq, c, statuses)
    /\ (/\ c \notin DOMAIN files
        /\ file_can_thumb(src)
        /\ src \in DOMAIN files /\ files[src].kind = "file"
        /\ files[src].data.type \in Decodable
        /\ makedirs_ok(files, Canon(dirname(r.cachepath)))
        /\ r.save \notin {"fail_clean", "fail_partial"})
           => CreatedInCache(r, rq, c, src, statuses)

ThumbnailLifecycle(statuses) ==
    /\ \A c \in DOMAIN files :
           IsThumb(files, c) => (c \in DOMAIN files' /\ files'[c] = files[c])
    /\ (GetStep /\ resp'.path # Rejected /\ StartsWith(resp'.path, CachePrefix)
                /\ ~isdir(files, resp'.realpath))
           => CacheStep(resp', req', Canon(resp'.cachepath), Canon(resp'.realpath), statuses)

====
